---- MODULE Spec2Model ----
(***************************************************************************)
(* Criterion evaluation engine of pdf_compliance: the rule catalog of      *)
(* compliance_config.py and the resolver, evaluators and report loop of    *)
(* evaluate_pdf.py.                                                        *)
(*                                                                         *)
(* Numbers are fixed-point: an integer n stands for n/100, so 21.59 is     *)
(* 2159 and the tolerance 0.2 is 20.  Comparisons are exact (decimal), not *)
(* binary floating point.                                                  *)
(***************************************************************************)
EXTENDS Integers, Sequences, FiniteSets, TLC

VARIABLES criteria, by_id, world, pc, idx, report, order, val, err, calls,
          history, geo, fnt, llm, ev

\* the engine: catalog, environment, position in run(), report, locals of
\* the loop, and the reports earlier calls of run() returned
engineVars ==
    <<criteria, by_id, world, pc, idx, report, order, val, err, calls, history>>

\* the tools beside the engine: geometry provider and driver, font
\* provider, LLM report generator, and a rule evaluated on its own
toolVars == <<geo, fnt, llm, ev>>

vars == <<engineVars, toolVars>>

\* a tool that is not running
Idle == [pc |-> "idle"]

(***************************************************************************)
(* Bounds of the model.                                                    *)
(***************************************************************************)
\* numeric inputs of the generic quantitative rules range over 0..MaxNum
MaxNum == 3
\* length of the generic catalogs
MaxRules == 2
\* number of calls of run() on the same document
MaxRuns == 2

(***************************************************************************)
(* Python values.  t is the type tag; n the number (num, bool); s the      *)
(* text (str); o the identity of a module, function, mapping or other      *)
(* object, written as the path that names it.                              *)
(***************************************************************************)
Num(x) == [t |-> "num", n |-> x, s |-> "", o |-> <<>>]
Bool(b) == [t |-> "bool", n |-> IF b THEN 1 ELSE 0, s |-> "", o |-> <<>>]
NoneV == [t |-> "none", n |-> 0, s |-> "", o |-> <<>>]
Str(x) == [t |-> "str", n |-> 0, s |-> x, o |-> <<>>]
Ref(kind, path) == [t |-> kind, n |-> 0, s |-> "", o |-> path]

\* an optional float field of a dataclass: None or a number
Nil == [some |-> FALSE, v |-> 0]
Some(x) == [some |-> TRUE, v |-> x]

NoAttrs == [a \in {} |-> NoneV]

(***************************************************************************)
(* compliance_config.py: the criterion classes and the catalog.            *)
(***************************************************************************)
Criterion(kind, id, severity, extractor) ==
    [kind |-> kind, id |-> id, severity |-> severity, extractor |-> extractor,
     target |-> Nil, tolerance |-> Nil, min_value |-> Nil, max_value |-> Nil,
     must_be_true |-> TRUE]

QuantitativeCriterion(id, severity, extractor, target, tolerance, min_value, max_value) ==
    [Criterion("QuantitativeCriterion", id, severity, extractor)
       EXCEPT !.target = target, !.tolerance = tolerance,
              !.min_value = min_value, !.max_value = max_value]

CategoricalCriterion(id, severity, extractor) ==
    Criterion("CategoricalCriterion", id, severity, extractor)

ExistentialCriterion(id, severity, extractor, must_be_true) ==
    [Criterion("ExistentialCriterion", id, severity, extractor)
       EXCEPT !.must_be_true = must_be_true]

StructuralCriterion(id, severity, extractor) ==
    Criterion("StructuralCriterion", id, severity, extractor)

QualitativeCriterion(id, severity, extractor) ==
    Criterion("QualitativeCriterion", id, severity, extractor)

CRITERIA ==
    << QuantitativeCriterion("L01W", "error", <<"geometry", "page_metrics", "page_w_cm">>,
                             Some(2159), Some(20), Nil, Nil),
       QuantitativeCriterion("L01H", "error", <<"geometry", "page_metrics", "page_h_cm">>,
                             Some(2794), Some(20), Nil, Nil),
       QuantitativeCriterion("L02T", "warning", <<"geometry", "page_metrics", "top_margin_cm">>,
                             Some(430), Some(20), Nil, Nil),
       QuantitativeCriterion("L02B", "warning", <<"geometry", "page_metrics", "bottom_margin_cm">>,
                             Some(430), Some(20), Nil, Nil),
       QuantitativeCriterion("L02L", "warning", <<"geometry", "page_metrics", "left_margin_cm">>,
                             Some(480), Some(20), Nil, Nil),
       QuantitativeCriterion("L02R", "warning", <<"geometry", "page_metrics", "right_margin_cm">>,
                             Some(480), Some(20), Nil, Nil),
       StructuralCriterion("L03", "error", <<"geometry", "structure", "single_column_double_spaced">>),
       QuantitativeCriterion("L04", "warning", <<"structure", "page_count">>,
                             Nil, Nil, Some(2000), Some(3500)),
       StructuralCriterion("L05", "error", <<"structure", "consecutive_page_numbers">>),
       QuantitativeCriterion("L06", "warning", <<"geometry", "page_metrics", "footnote_baseline_cm">>,
                             Some(260), Some(20), Nil, Nil),
       CategoricalCriterion("T01", "error", <<"fonts", "most_common_body_font">>),
       QuantitativeCriterion("T02_title", "warning", <<"fonts", "fontsize", "title_pt">>,
                             Some(1400), Some(0), Nil, Nil),
       QuantitativeCriterion("T02_body", "warning", <<"fonts", "fontsize", "body_pt">>,
                             Some(1000), Some(0), Nil, Nil),
       QuantitativeCriterion("T02_captions", "warning", <<"fonts", "fontsize", "smalltext_pt">>,
                             Some(800), Some(0), Nil, Nil),
       ExistentialCriterion("S00", "error", <<"structure", "has_title_page">>, TRUE),
       QualitativeCriterion("S01", "warning", <<"structure", "title_text">>),
       QuantitativeCriterion("S02", "error", <<"structure", "abstract_wordcount">>,
                             Nil, Nil, Nil, Some(25000)),
       QualitativeCriterion("S03", "warning", <<"structure", "conclusions_vs_abstract">>),
       ExistentialCriterion("S04", "warning", <<"structure", "highlights_ok">>, TRUE),
       ExistentialCriterion("S05", "warning", <<"structure", "has_credit_statement">>, TRUE),
       ExistentialCriterion("S06", "warning", <<"structure", "ai_use_statement">>, TRUE),
       QuantitativeCriterion("S07", "error", <<"structure", "keyword_count">>,
                             Nil, Nil, Some(100), Some(700)),
       QuantitativeCriterion("R01", "warning", <<"references", "count">>,
                             Nil, Nil, Some(3500), Some(5500)),
       QuantitativeCriterion("R02", "warning", <<"references", "share_recent_pct">>,
                             Nil, Nil, Some(3000), Nil),
       QuantitativeCriterion("R03", "warning", <<"references", "share_preprint_pct">>,
                             Nil, Nil, Nil, Some(2000)),
       StructuralCriterion("R04", "warning", <<"references", "bulk_citation_commentary">>),
       QuantitativeCriterion("R05", "warning", <<"references", "count_pattern_recognition">>,
                             Nil, Nil, Some(300), Nil) >>

\* CRITERIA_BY_ID = {c.id: c for c in CRITERIA}: a later entry with the same
\* id replaces the earlier one, nothing is raised
RECURSIVE ById(_)
ById(cs) ==
    IF cs = <<>> THEN [i \in {} |-> 0]
    ELSE LET front == SubSeq(cs, 1, Len(cs) - 1)
             last == cs[Len(cs)]
         IN (last.id :> last) @@ ById(front)

Ids(cs) == {cs[i].id : i \in DOMAIN cs}

HasDuplicateIds(cs) == \E i, j \in DOMAIN cs : i # j /\ cs[i].id = cs[j].id

(***************************************************************************)
(* The Python objects an extractor reference can reach.  world is the      *)
(* environment of one process: which provider modules import, the document *)
(* under test, and what the structure/references providers compute.        *)
(***************************************************************************)
ModNames == {"geometry", "fonts", "structure", "references"}

Status == {"ok", "notfound", "raises"}

\* providers named by the catalog that are not part of the source tree
StubModules == {"structure", "references"}

StubFunctions ==
    {"page_count", "consecutive_page_numbers", "has_title_page", "title_text",
     "abstract_wordcount", "conclusions_vs_abstract", "highlights_ok",
     "has_credit_statement", "ai_use_statement", "keyword_count", "count",
     "share_recent_pct", "share_preprint_pct", "bulk_citation_commentary",
     "count_pattern_recognition"}

\* a provider result that stands for "the provider raised"
Raises == [t |-> "raise", n |-> 0, s |-> "", o |-> <<>>]

\* the mapping page_metrics returns, per sample document (geometry.py 121-132)
PageMetricsResult(doc) ==
    CASE doc = "letter" ->
           [page_w_cm |-> Num(2159), page_h_cm |-> Num(2794),
            left_margin_cm |-> Num(480), right_margin_cm |-> Num(480),
            top_margin_cm |-> Num(430), bottom_margin_cm |-> Num(430),
            two_column |-> Bool(FALSE), footnote_baseline_cm |-> Num(260),
            _pages |-> Ref("list", <<"geometry", "page_metrics", "()", "_pages">>)]
      [] doc = "edge" ->
           [page_w_cm |-> Num(2179), page_h_cm |-> Num(2774),
            left_margin_cm |-> Num(501), right_margin_cm |-> Num(459),
            top_margin_cm |-> Num(450), bottom_margin_cm |-> Num(410),
            two_column |-> Bool(FALSE), footnote_baseline_cm |-> Num(281),
            _pages |-> Ref("list", <<"geometry", "page_metrics", "()", "_pages">>)]
      [] OTHER ->
           [page_w_cm |-> Num(2100), page_h_cm |-> Num(2970),
            left_margin_cm |-> Num(250), right_margin_cm |-> Num(250),
            top_margin_cm |-> Num(250), bottom_margin_cm |-> Num(250),
            two_column |-> Bool(TRUE), footnote_baseline_cm |-> Num(250),
            _pages |-> Ref("list", <<"geometry", "page_metrics", "()", "_pages">>)]

\* the mapping the stub provider function `metrics` returns
StubMetricsResult(m, w) ==
    [k |-> w.leaf, cb |-> Ref("function", <<m, "metrics", "()", "cb">>)]

\* importlib.import_module(".".join(name)): "module", "notfound"
\* (ModuleNotFoundError) or "raises" (any other exception)
ImportModule(name, w) ==
    IF name[1] = "" THEN "raises"
    ELSE IF name[1] \notin ModNames THEN "notfound"
    ELSE IF w.status[name[1]] # "ok" THEN w.status[name[1]]
    ELSE IF Len(name) = 1 THEN "module"
    ELSE "notfound"

\* the attributes getattr can read off a value
Attrs(v, w) ==
    CASE v.t = "module" /\ v.o = <<"geometry">> ->
           [page_metrics |-> Ref("function", <<"geometry", "page_metrics">>),
            _page_metrics_single |-> Ref("function", <<"geometry", "_page_metrics_single">>),
            _percentile |-> Ref("function", <<"geometry", "_percentile">>)]
      [] v.t = "module" /\ v.o = <<"fonts">> ->
           [font_inventory |-> Ref("function", <<"fonts", "font_inventory">>),
            has_only_times_and_arial |-> Ref("function", <<"fonts", "has_only_times_and_arial">>),
            _ALLOWED_FONTS |-> Ref("set", <<"fonts", "_ALLOWED_FONTS">>)]
      [] v.t = "module" /\ Len(v.o) = 1 /\ v.o[1] \in StubModules ->
           [a \in StubFunctions \cup {"metrics", "const", "ns"} |->
              CASE a = "const" -> IF w.leaf = Raises THEN NoneV ELSE w.leaf
                [] a = "ns" -> Ref("object", <<v.o[1], "ns">>)
                [] OTHER -> Ref("function", <<v.o[1], a>>)]
      [] v.t = "object" -> [g |-> Ref("function", <<v.o[1], "ns", "g">>)]
      [] v.t = "dict" -> [keys |-> Ref("method", v.o \o <<"keys">>)]
      [] v.t = "num" -> [real |-> v]
      [] OTHER -> NoAttrs

\* the items of a mapping
Items(v, w) ==
    CASE v.t = "dict" /\ v.o = <<"geometry", "page_metrics", "()">> -> PageMetricsResult(w.doc)
      [] v.t = "dict" /\ Len(v.o) = 3 /\ v.o[2] = "metrics" -> StubMetricsResult(v.o[1], w)
      [] OTHER -> NoAttrs

\* obj(pdf_path): the value returned, or Raises
Call(f, pdf_path, w) ==
    CASE f.o = <<"geometry", "page_metrics">> ->
           IF w.doc = "unreadable" THEN Raises
           ELSE Ref("dict", <<"geometry", "page_metrics", "()">>)
      [] f.o = <<"fonts", "font_inventory">> ->
           IF w.doc = "unreadable" THEN Raises
           ELSE Ref("list", <<"fonts", "font_inventory", "()">>)
      [] f.o \in {<<"geometry", "_page_metrics_single">>, <<"geometry", "_percentile">>,
                  <<"fonts", "has_only_times_and_arial">>} -> Raises
      [] Len(f.o) = 2 /\ f.o[1] \in StubModules /\ f.o[2] = "metrics" ->
           IF w.leaf = Raises THEN Raises
           ELSE Ref("dict", <<f.o[1], "metrics", "()">>)
      [] Len(f.o) >= 2 /\ f.o[1] \in StubModules /\ f.o[Len(f.o)] # "cb" -> w.leaf
      [] OTHER -> NoneV

callable(v) == v.t \in {"function", "method"}

hasattr(v, attr, w) == attr \in DOMAIN Attrs(v, w)

getattr(v, attr, w) == Attrs(v, w)[attr]

isdict(v) == v.t = "dict"

\* bool(value)
Truthy(v, w) ==
    CASE v.t = "num" -> v.n # 0
      [] v.t = "bool" -> v.n = 1
      [] v.t = "none" -> FALSE
      [] v.t = "str" -> v.s # ""
      [] v.t = "dict" -> DOMAIN Items(v, w) # {}
      [] OTHER -> TRUE

\* float(value): the texts the model uses that parse as a number
ParseFloat(s) ==
    CASE s = "2" -> Some(200)
      [] s = "4.5" -> Some(450)
      [] OTHER -> Nil

ToFloat(v) ==
    CASE v.t = "num" -> Some(v.n)
      [] v.t = "bool" -> Some(100 * v.n)
      [] v.t = "str" -> ParseFloat(v.s)
      [] OTHER -> Nil

(***************************************************************************)
(* evaluate_pdf.py: the extractor resolver.                                *)
(***************************************************************************)
NoMsg == [kind |-> "", arg |-> "", where |-> <<>>]

Msg(kind, arg, where) == [kind |-> kind, arg |-> arg, where |-> where]

\* path.split("."): the text "" splits into one empty segment
Split(path) == IF path = <<>> THEN <<"">> ELSE path

\* mutant: ModuleNotFoundError is not caught, the longest prefix decides
ImportLoopNoCatch(parts, i, w) ==
    IF ImportModule(SubSeq(parts, 1, i), w) = "module"
    THEN [kind |-> "module", i |-> i]
    ELSE [kind |-> "raised", i |-> i]

\* evaluate_pdf.py 55-64: try the longest prefix first; only
\* ModuleNotFoundError moves on to a shorter one
RECURSIVE ImportLoop(_, _, _)
ImportLoop(parts, i, w) ==
    IF i = 0 THEN [kind |-> "notfound", i |-> 0]
    ELSE CASE ImportModule(SubSeq(parts, 1, i), w) = "notfound" -> ImportLoop(parts, i - 1, w)
           [] ImportModule(SubSeq(parts, 1, i), w) = "raises" -> [kind |-> "raised", i |-> i]
           [] OTHER -> [kind |-> "module", i |-> i]

\* evaluate_pdf.py 66-77: walk attributes until a callable is the cursor
RECURSIVE WalkAttrs(_, _, _, _, _, _)
WalkAttrs(obj, attr_chain, k, parts, i, w) ==
    IF k > Len(attr_chain)
    THEN [ok |-> TRUE, obj |-> obj, remaining_attrs |-> <<>>, msg |-> NoMsg]
    ELSE IF callable(obj)
    THEN [ok |-> TRUE, obj |-> obj,
          remaining_attrs |-> SubSeq(attr_chain, k, Len(attr_chain)), msg |-> NoMsg]
    ELSE IF ~hasattr(obj, attr_chain[k], w)
    THEN [ok |-> FALSE, obj |-> NoneV, remaining_attrs |-> <<>>,
          msg |-> Msg("attribute missing", attr_chain[k], SubSeq(parts, 1, i + k - 1))]
    ELSE WalkAttrs(getattr(obj, attr_chain[k], w), attr_chain, k + 1, parts, i, w)

\* evaluate_pdf.py 61-66, 79: after the import loop
Resolve(path, parts, imp, w) ==
    CASE imp.kind = "raised" ->
           [raised |-> TRUE, ok |-> FALSE, obj |-> NoneV, remaining_attrs |-> <<>>,
            msg |-> NoMsg]
      [] imp.kind = "notfound" ->
           [raised |-> FALSE, ok |-> FALSE, obj |-> NoneV, remaining_attrs |-> <<>>,
            msg |-> Msg("module not found", "", path)]
      [] OTHER ->
           [raised |-> FALSE] @@
             WalkAttrs(Ref("module", SubSeq(parts, 1, imp.i)),
                       SubSeq(parts, imp.i + 1, Len(parts)), 1, parts, imp.i, w)

\* raised: an exception left the function
_resolve_extractor(path, w) ==
    IF Split(path) = <<>>
    THEN [raised |-> FALSE, ok |-> FALSE, obj |-> NoneV, remaining_attrs |-> <<>>,
          msg |-> Msg("empty extractor path", "", <<>>)]
    ELSE Resolve(path, Split(path), ImportLoop(Split(path), Len(Split(path)), w), w)

\* mutant: a value found while drilling is invoked when it is invocable
InvokeFound(v, pdf_path, w) ==
    IF callable(v)
    THEN [found |-> TRUE, val |-> Call(v, pdf_path, w),
          calls |-> <<[f |-> v, args |-> <<pdf_path>>]>>]
    ELSE [found |-> TRUE, val |-> v, calls |-> <<>>]

DrillStepInvoking(result, attr, pdf_path, w) ==
    IF isdict(result) /\ attr \in DOMAIN Items(result, w)
    THEN InvokeFound(Items(result, w)[attr], pdf_path, w)
    ELSE IF hasattr(result, attr, w)
    THEN InvokeFound(getattr(result, attr, w), pdf_path, w)
    ELSE [found |-> FALSE, val |-> NoneV, calls |-> <<>>]

\* mutant: attribute lookup only, mapping keys are not tried
DrillStepAttrOnly(result, attr, pdf_path, w) ==
    IF hasattr(result, attr, w)
    THEN [found |-> TRUE, val |-> getattr(result, attr, w), calls |-> <<>>]
    ELSE [found |-> FALSE, val |-> NoneV, calls |-> <<>>]

\* evaluate_pdf.py 98-103: one drill-down step; the value found is not invoked
DrillStep(result, attr, pdf_path, w) ==
    IF isdict(result) /\ attr \in DOMAIN Items(result, w)
    THEN [found |-> TRUE, val |-> Items(result, w)[attr], calls |-> <<>>]
    ELSE IF hasattr(result, attr, w)
    THEN [found |-> TRUE, val |-> getattr(result, attr, w), calls |-> <<>>]
    ELSE [found |-> FALSE, val |-> NoneV, calls |-> <<>>]

RECURSIVE Drill(_, _, _, _, _, _)
\* evaluate_pdf.py 96-106: after one step st of the drill-down
DrillOn(st, tail_attrs, k, cs, pdf_path, w) ==
    IF st.val = Raises
    THEN [val |-> NoneV, err |-> Msg("runtime error", "", <<>>), calls |-> cs \o st.calls]
    ELSE IF st.found
    THEN Drill(st.val, tail_attrs, k + 1, cs \o st.calls, pdf_path, w)
    ELSE [val |-> NoneV, err |-> Msg("key/attr not found", tail_attrs[k], <<>>),
          calls |-> cs]

Drill(result, tail_attrs, k, cs, pdf_path, w) ==
    IF k > Len(tail_attrs)
    THEN [val |-> result, err |-> NoMsg, calls |-> cs]
    ELSE DrillOn(DrillStep(result, tail_attrs[k], pdf_path, w), tail_attrs, k, cs, pdf_path, w)

\* evaluate_pdf.py 89-94: the cursor the resolver stopped at is called once
Invoke(obj, pdf_path, w) ==
    IF callable(obj)
    THEN [result |-> Call(obj, pdf_path, w), calls |-> <<[f |-> obj, args |-> <<pdf_path>>]>>]
    ELSE [result |-> obj, calls |-> <<>>]

\* evaluate_pdf.py 90-106: the call and the drill-down, inside try/except
Execute(r, inv, pdf_path, w) ==
    IF inv.result = Raises
    THEN [raised |-> FALSE, val |-> NoneV, err |-> Msg("runtime error", "", <<>>),
          calls |-> inv.calls]
    ELSE [raised |-> FALSE] @@ Drill(inv.result, r.remaining_attrs, 1, inv.calls, pdf_path, w)

\* evaluate_pdf.py 83-87: a failed resolution is returned as its message
AfterResolve(r, pdf_path, w) ==
    IF r.raised
    THEN [raised |-> TRUE, val |-> NoneV, err |-> NoMsg, calls |-> <<>>]
    ELSE IF ~r.ok
    THEN [raised |-> FALSE, val |-> NoneV, err |-> r.msg, calls |-> <<>>]
    ELSE Execute(r, Invoke(r.obj, pdf_path, w), pdf_path, w)

_execute_extractor(pdf_path, extractor_path, w) ==
    AfterResolve(_resolve_extractor(extractor_path, w), pdf_path, w)

(***************************************************************************)
(* evaluate_pdf.py: the rule evaluators.                                   *)
(***************************************************************************)
Abs(x) == IF x < 0 THEN -x ELSE x

\* mutant: the tolerance band excludes its boundaries
CompareStrict(rule, num) ==
    IF rule.target.some /\ rule.tolerance.some
    THEN [passed |-> Abs(num - rule.target.v) < rule.tolerance.v, detail |-> Num(num)]
    ELSE IF rule.min_value.some /\ rule.max_value.some
    THEN [passed |-> rule.min_value.v <= num /\ num <= rule.max_value.v, detail |-> Num(num)]
    ELSE IF rule.min_value.some
    THEN [passed |-> num >= rule.min_value.v, detail |-> Num(num)]
    ELSE IF rule.max_value.some
    THEN [passed |-> num <= rule.max_value.v, detail |-> Num(num)]
    ELSE [passed |-> TRUE, detail |-> Num(num)]

\* evaluate_pdf.py 118-126: the comparison on the coerced number
Compare(rule, num) ==
    IF rule.target.some /\ rule.tolerance.some
    THEN [passed |-> Abs(num - rule.target.v) <= rule.tolerance.v, detail |-> Num(num)]
    ELSE IF rule.min_value.some /\ rule.max_value.some
    THEN [passed |-> rule.min_value.v <= num /\ num <= rule.max_value.v, detail |-> Num(num)]
    ELSE IF rule.min_value.some
    THEN [passed |-> num >= rule.min_value.v, detail |-> Num(num)]
    ELSE IF rule.max_value.some
    THEN [passed |-> num <= rule.max_value.v, detail |-> Num(num)]
    ELSE [passed |-> TRUE, detail |-> Num(num)]

\* evaluate_pdf.py 113-116: float(value) or the non-numeric diagnostic
Coerced(rule, f) ==
    IF ~f.some
    THEN [passed |-> FALSE, detail |-> Str("non-numeric value")]
    ELSE Compare(rule, f.v)

_evaluate_quantitative(rule, value) == Coerced(rule, ToFloat(value))

\* mutant: must_be_true is not consulted
_evaluate_existential_presence(rule, value, w) ==
    [passed |-> Truthy(value, w), detail |-> value]

_evaluate_existential(rule, value, w) ==
    [passed |-> Truthy(value, w) = rule.must_be_true, detail |-> value]

(***************************************************************************)
(* evaluate_pdf.py: run(), one iteration of the loop over the catalog.     *)
(***************************************************************************)
\* mutant: a skip that records no reason
SkippedBare(reason) ==
    [keys |-> {"status"}, status |-> "skipped", value |-> NoneV, reason |-> NoMsg]

Skipped(reason) ==
    [keys |-> {"status", "reason"}, status |-> "skipped", value |-> NoneV, reason |-> reason]

\* an engine that remembers it has run before and stamps later results
EvaluatedStamped(status, detail) ==
    [keys |-> {"status", "value"}, status |-> status,
     value |-> IF history = <<>> THEN detail ELSE Str("cached"), reason |-> NoMsg]

Evaluated(status, detail) ==
    [keys |-> {"status", "value"}, status |-> status, value |-> detail, reason |-> NoMsg]

\* mutant: structural rules are judged by truthiness
DispatchStructural(rule, value, w) ==
    CASE rule.kind = "QuantitativeCriterion" ->
           [supported |-> TRUE] @@ _evaluate_quantitative(rule, value)
      [] rule.kind = "ExistentialCriterion" ->
           [supported |-> TRUE] @@ _evaluate_existential(rule, value, w)
      [] rule.kind = "StructuralCriterion" ->
           [supported |-> TRUE, passed |-> Truthy(value, w), detail |-> value]
      [] OTHER -> [supported |-> FALSE, passed |-> FALSE, detail |-> NoneV]

\* evaluate_pdf.py 150-156: the evaluator of the rule's class, if it has one
Dispatch(rule, value, w) ==
    CASE rule.kind = "QuantitativeCriterion" ->
           [supported |-> TRUE] @@ _evaluate_quantitative(rule, value)
      [] rule.kind = "ExistentialCriterion" ->
           [supported |-> TRUE] @@ _evaluate_existential(rule, value, w)
      [] OTHER -> [supported |-> FALSE, passed |-> FALSE, detail |-> NoneV]

\* evaluate_pdf.py 158: the status of an evaluated rule
StatusOf(rule, passed) == IF passed THEN "ok" ELSE rule.severity

\* evaluate_pdf.py 149-159: the verdict of a rule whose extractor gave x.val
Verdict(rule, x, d) ==
    IF ~d.supported
    THEN [raised |-> FALSE, resolved |-> TRUE, val |-> x.val, err |-> x.err,
          calls |-> x.calls,
          entry |-> Skipped(Msg("not yet supported", rule.kind, <<>>))]
    ELSE [raised |-> FALSE, resolved |-> TRUE, val |-> x.val, err |-> x.err,
          calls |-> x.calls,
          entry |-> Evaluated(StatusOf(rule, d.passed), d.detail)]

\* evaluate_pdf.py 144-147: the outcome x of _execute_extractor
AfterExecute(rule, x, w) ==
    IF x.raised
    THEN [raised |-> TRUE, resolved |-> FALSE, val |-> NoneV, err |-> NoMsg,
          calls |-> x.calls, entry |-> Skipped(NoMsg)]
    ELSE IF x.err # NoMsg
    THEN [raised |-> FALSE, resolved |-> TRUE, val |-> x.val, err |-> x.err,
          calls |-> x.calls, entry |-> Skipped(x.err)]
    ELSE Verdict(rule, x, Dispatch(rule, x.val, w))

\* evaluate_pdf.py 141-159: what one iteration writes into the report
\* (raised: an exception left run and nothing is written; resolved: val and
\* err were assigned by line 144)
RunRule(rule, pdf_path, w) ==
    IF rule.extractor = <<>>
    THEN [raised |-> FALSE, resolved |-> FALSE, val |-> NoneV, err |-> NoMsg,
          calls |-> <<>>, entry |-> Skipped(Msg("no extractor path", "", <<>>))]
    ELSE AfterExecute(rule, _execute_extractor(pdf_path, rule.extractor, w), w)

EmptyReport == [i \in {} |-> Skipped(NoMsg)]

\* report[rule.id] = entry
Store(rep, id, entry) == (id :> entry) @@ rep

(***************************************************************************)
(* The inputs: catalogs and environments.                                  *)
(***************************************************************************)
Severities == {"info", "warning", "error"}

Optional == {Nil} \cup {Some(x) : x \in 0..MaxNum}

\* what a structure/references provider can return
NumLeaves == {Num(x) : x \in 0..MaxNum}

OtherLeaves ==
    {Bool(TRUE), Bool(FALSE), NoneV, Str(""), Str("x"), Str("2"),
     Ref("dict", <<"{}">>), Ref("module", <<"fonts">>), Raises}

Docs == {"letter", "edge", "a4", "unreadable"}

World(status, doc, leaf) ==
    [status |-> status, doc |-> doc, leaf |-> leaf, pdf_path |-> "submission.pdf"]

\* the source tree as it is: geometry and fonts import, the other two do not
RepoStatus ==
    [m \in ModNames |-> IF m \in StubModules THEN "notfound" ELSE "ok"]

\* the catalog of compliance_config.py, any combination of provider modules
InitCatalog ==
    /\ criteria = CRITERIA
    /\ \E st \in [ModNames -> Status], doc \in Docs,
          leaf \in {Num(2500), Bool(TRUE), NoneV} :
         world = World(st, doc, leaf)

\* one quantitative rule with every combination of bounds, on a number
InitQuantitative ==
    /\ \E sev \in Severities, t \in Optional, tol \in Optional,
          mn \in Optional, mx \in Optional :
         criteria = << QuantitativeCriterion("Q", sev, <<"structure", "page_count">>,
                                             t, tol, mn, mx) >>
    /\ \E leaf \in NumLeaves :
         world = World([RepoStatus EXCEPT !["structure"] = "ok"], "letter", leaf)

\* extractor references of every shape
References ==
    { <<>>, <<"", "x">>, <<"nomod", "x">>, <<"geometry">>,
      <<"geometry", "page_metrics">>, <<"geometry", "page_metrics", "left_margin_cm">>,
      <<"geometry", "page_metrics", "two_column">>, <<"geometry", "page_metrics", "keys">>,
      <<"geometry", "page_metrics", "missing_field">>, <<"geometry", "missing_field">>,
      <<"geometry", "page_metrics", "left_margin_cm", "real">>,
      <<"geometry", "_percentile">>, <<"fonts", "font_inventory">>,
      <<"fonts", "_ALLOWED_FONTS">>, <<"structure", "page_count">>,
      <<"structure", "metrics", "k">>, <<"structure", "metrics", "cb">>,
      <<"structure", "const">>, <<"structure", "ns", "g">>,
      <<"structure", "ns", "g", "k">>, <<"references", "count">> }

RuleShapes(id, extractor) ==
    { QuantitativeCriterion(id, "warning", extractor, Nil, Nil, Nil, Some(2)),
      QuantitativeCriterion(id, "error", extractor, Some(480), Some(20), Nil, Nil),
      ExistentialCriterion(id, "error", extractor, TRUE),
      ExistentialCriterion(id, "info", extractor, FALSE),
      CategoricalCriterion(id, "error", extractor),
      StructuralCriterion(id, "error", extractor),
      QualitativeCriterion(id, "warning", extractor) }

\* one rule of any class on any reference, in any environment
InitSingle ==
    /\ \E ref \in References : \E r \in RuleShapes("G1", ref) : criteria = <<r>>
    /\ \E st \in Status, doc \in {"letter", "unreadable"},
          leaf \in NumLeaves \cup OtherLeaves :
         world = World([RepoStatus EXCEPT !["structure"] = st], doc, leaf)

\* catalogs of several rules, ids free to repeat
ShortReferences ==
    { <<>>, <<"nomod", "x">>, <<"structure", "page_count">>,
      <<"geometry", "page_metrics", "left_margin_cm">> }

ShortShapes(id, extractor) ==
    { QuantitativeCriterion(id, "error", extractor, Some(480), Some(20), Nil, Nil),
      StructuralCriterion(id, "warning", extractor) }

ShortRules == UNION {ShortShapes(id, ref) : id \in {"G1", "G2"}, ref \in ShortReferences}

InitSeveral ==
    /\ \E n \in 2..MaxRules : criteria \in [1..n -> ShortRules]
    /\ \E st \in Status, leaf \in {Num(0), NoneV} :
         world = World([RepoStatus EXCEPT !["structure"] = st], "letter", leaf)

(***************************************************************************)
(* The process: compliance_config is imported, then run() walks the        *)
(* catalog.                                                                *)
(***************************************************************************)
Init ==
    /\ InitCatalog \/ InitQuantitative \/ InitSingle \/ InitSeveral
    /\ by_id = EmptyReport
    /\ pc = "import"
    /\ idx = 0
    /\ report = EmptyReport
    /\ order = <<>>
    /\ val = NoneV
    /\ err = NoMsg
    /\ calls = <<>>
    /\ history = <<>>
    /\ geo = Idle /\ fnt = Idle /\ llm = Idle /\ ev = Idle

\* compliance_config.py 294: the module body builds the lookup
LoadConfig ==
    /\ pc = "import"
    /\ by_id' = ById(criteria)
    /\ pc' = "ready"
    /\ UNCHANGED <<criteria, world, idx, report, order, val, err, calls>>
    /\ UNCHANGED <<history, toolVars>>

\* evaluate_pdf.py 137: run() starts with an empty report; a caller that
\* already holds a report keeps it and calls run() again on the same
\* document
StartRun ==
    /\ pc = "ready" \/ (pc = "done" /\ Len(history) + 1 < MaxRuns)
    /\ history' = IF pc = "done"
                  THEN Append(history, [report |-> report, order |-> order])
                  ELSE history
    /\ report' = EmptyReport
    /\ order' = <<>>
    /\ idx' = 1
    /\ val' = NoneV
    /\ err' = NoMsg
    /\ calls' = <<>>
    /\ pc' = "running"
    /\ UNCHANGED <<criteria, by_id, world, toolVars>>

\* evaluate_pdf.py 142-159: the assignments of an iteration with outcome r
Record(rule, r) ==
    /\ ~r.raised
    /\ report' = Store(report, rule.id, r.entry)
    /\ order' = IF rule.id \in DOMAIN report THEN order ELSE Append(order, rule.id)
    /\ val' = IF r.resolved THEN r.val ELSE val
    /\ err' = IF r.resolved THEN r.err ELSE err
    /\ calls' = r.calls

\* evaluate_pdf.py 139-159: one iteration that records a verdict; calls are
\* the invocations the iteration made
EvaluateRule ==
    /\ pc = "running"
    /\ idx <= Len(criteria)
    /\ Record(criteria[idx], RunRule(criteria[idx], world.pdf_path, world))
    /\ idx' = idx + 1
    /\ UNCHANGED <<criteria, by_id, world, pc, history, toolVars>>

\* an exception leaves run(): the caller gets no report
RuleFault ==
    /\ pc = "running"
    /\ idx <= Len(criteria)
    /\ RunRule(criteria[idx], world.pdf_path, world).raised
    /\ calls' = <<>>
    /\ pc' = "crashed"
    /\ UNCHANGED <<criteria, by_id, world, idx, report, order, val, err>>
    /\ UNCHANGED <<history, toolVars>>

\* evaluate_pdf.py 161: return report
ReturnReport ==
    /\ pc = "running"
    /\ idx > Len(criteria)
    /\ pc' = "done"
    /\ UNCHANGED <<criteria, by_id, world, idx, report, order, val, err, calls>>
    /\ UNCHANGED <<history, toolVars>>

Next == LoadConfig \/ StartRun \/ EvaluateRule \/ RuleFault \/ ReturnReport

Spec == Init /\ [][Next]_vars

(***************************************************************************)
(* The tools run on their own: the engine is not started.                  *)
(***************************************************************************)
EngineIdle ==
    /\ criteria = <<>>
    /\ by_id = EmptyReport
    /\ world = World(RepoStatus, "a4", NoneV)
    /\ pc = "idle"
    /\ idx = 0
    /\ report = EmptyReport
    /\ order = <<>>
    /\ val = NoneV
    /\ err = NoMsg
    /\ calls = <<>>
    /\ history = <<>>

\* round(num / den) to the nearest integer, an exact tie to the even one;
\* on binary floats a decimal tie falls to either side
RoundDiv(num, den) ==
    IF 2 * (num % den) < den THEN num \div den
    ELSE IF 2 * (num % den) > den THEN (num \div den) + 1
    ELSE IF (num \div den) % 2 = 0 THEN num \div den
    ELSE (num \div den) + 1

(***************************************************************************)
(* fonts.py.  A font name is a sequence of tokens: "+" and "," are the     *)
(* characters themselves, any other token is a run of characters holding   *)
(* neither.  Sizes are fixed-point: 1204 is 12.04 pt.                      *)
(***************************************************************************)
\* longest raw font name, in tokens
MaxNameLen == 4

Tokens == {"ABCDEF", "TimesNewRomanPSMT", "+", ","}

Names == UNION {[1..n -> Tokens] : n \in 0..MaxNameLen}

\* the position of the first sep in s
FirstIndex(s, sep) ==
    CHOOSE i \in DOMAIN s : s[i] = sep /\ \A k \in 1..(i - 1) : s[k] # sep

RECURSIVE split(_, _)
\* str.split(sep): the pieces between the separators, always at least one
split(s, sep) ==
    IF \A i \in DOMAIN s : s[i] # sep THEN <<s>>
    ELSE <<SubSeq(s, 1, FirstIndex(s, sep) - 1)>>
         \o split(SubSeq(s, FirstIndex(s, sep) + 1, Len(s)), sep)

\* seq[-1]
Last(seq) == seq[Len(seq)]

\* fonts.py 52-54: the key a glyph is counted under
Tag(lt_char) ==
    [name |-> Last(split(lt_char.fontname, "+")),
     size |-> RoundDiv(lt_char.size, 10) * 10]

\* fonts.py 55: counter[tag] += 1; a Counter keeps insertion order
Increment(counter, tag) ==
    IF \E i \in DOMAIN counter : counter[i].tag = tag
    THEN [i \in DOMAIN counter |->
            IF counter[i].tag = tag
            THEN [tag |-> tag, count |-> counter[i].count + 1]
            ELSE counter[i]]
    ELSE Append(counter, [tag |-> tag, count |-> 1])

RECURSIVE Tally(_, _)
\* fonts.py 50-55: the loop over the glyphs of the first pages
Tally(chars, counter) ==
    IF chars = <<>> THEN counter
    ELSE Tally(Tail(chars), Increment(counter, Tag(Head(chars))))

\* the first entry with the highest count
Top(counter) ==
    CHOOSE i \in DOMAIN counter :
        /\ \A j \in DOMAIN counter : counter[j].count <= counter[i].count
        /\ \A j \in 1..(i - 1) : counter[j].count < counter[i].count

Without(seq, i) == SubSeq(seq, 1, i - 1) \o SubSeq(seq, i + 1, Len(seq))

RECURSIVE most_common(_)
\* Counter.most_common(): by count, highest first, ties in insertion order
most_common(counter) ==
    IF counter = <<>> THEN <<>>
    ELSE <<counter[Top(counter)]>> \o most_common(Without(counter, Top(counter)))

font_inventory(chars) == most_common(Tally(chars, <<>>))

_ALLOWED_FONTS ==
    {<<"TimesNewRomanPSMT">>, <<"TimesNewRomanPS-BoldMT">>,
     <<"TimesNewRomanPS-ItalicMT">>, <<"TimesNewRomanPS-BoldItalicMT">>,
     <<"ArialMT">>, <<"Arial-BoldMT">>, <<"Arial-ItalicMT">>,
     <<"Arial-BoldItalicMT">>}

\* fonts.py 72-78
has_only_times_and_arial(counter) ==
    \A i \in DOMAIN counter :
        split(counter[i].tag.name, ",")[1] \in _ALLOWED_FONTS

\* glyph sizes a page can carry
Sizes == {1000, 1196, 1204}

Glyph(fontname, size) == [fontname |-> fontname, size |-> size]

\* further glyphs of a document
SampleGlyphs ==
    {Glyph(<<"TimesNewRomanPSMT">>, 1204),
     Glyph(<<"ABCDEF", "+", "TimesNewRomanPSMT">>, 1196),
     Glyph(<<"ABCDEF">>, 1000)}

\* the glyphs of the first pages of a document: none, one of any font name,
\* or that one among further glyphs
CharLists ==
    {<<>>}
    \cup {<<Glyph(n, s)>> : n \in Names, s \in Sizes}
    \cup {<<Glyph(n, 1204), g>> : n \in Names, g \in SampleGlyphs}
    \cup {<<g, Glyph(n, 1204), g>> : n \in Names, g \in SampleGlyphs}

FontsStart(chars) == [pc |-> "start", chars |-> chars, fonts |-> <<>>, allowed |-> FALSE]

InitFonts ==
    /\ EngineIdle
    /\ \E chars \in CharLists : fnt = FontsStart(chars)
    /\ geo = Idle /\ llm = Idle /\ ev = Idle

\* fonts.py 42-57
FontInventory ==
    /\ fnt.pc = "start"
    /\ fnt' = [fnt EXCEPT !.pc = "listed", !.fonts = font_inventory(fnt.chars)]
    /\ UNCHANGED <<engineVars, geo, llm, ev>>

\* fonts.py 72-78, on the inventory just taken
HasOnlyTimesAndArial ==
    /\ fnt.pc = "listed"
    /\ fnt' = [fnt EXCEPT !.pc = "judged",
                          !.allowed = has_only_times_and_arial(fnt.fonts)]
    /\ UNCHANGED <<engineVars, geo, llm, ev>>

NextFonts == FontInventory \/ HasOnlyTimesAndArial

SpecFonts == InitFonts /\ [][NextFonts]_vars

(***************************************************************************)
(* geometry.py.  A page is its width and height in points and the bounding *)
(* boxes of its text spans.  Per-page metrics are in hundredths of a       *)
(* point, document metrics in hundredths of a centimetre.                  *)
(***************************************************************************)
\* longest document, in pages
MaxPages == 3

Span(x0, y0, x1, y1) == [x0 |-> x0, y0 |-> y0, x1 |-> x1, y1 |-> y1]

Page(w_pt, h_pt, spans) == [w_pt |-> w_pt, h_pt |-> h_pt, spans |-> spans]

\* the position of a smallest element
Least(data) ==
    CHOOSE i \in DOMAIN data : \A j \in DOMAIN data : data[i] <= data[j]

RECURSIVE sorted(_)
sorted(data) ==
    IF data = <<>> THEN <<>>
    ELSE <<data[Least(data)]>> \o sorted(Without(data, Least(data)))

\* geometry.py 40-46: k100 is 100 k, f and c count from 0
Interpolate(data_sorted, k100, f, c) ==
    IF f = c THEN data_sorted[f + 1] * 100
    ELSE data_sorted[f + 1] * (c * 100 - k100)
         + data_sorted[c + 1] * (k100 - f * 100)

\* geometry.py 35-46
_percentile(data, pct) ==
    IF data = <<>> THEN 0
    ELSE Interpolate(sorted(data),
                     (Len(data) - 1) * pct,
                     ((Len(data) - 1) * pct) \div 100,
                     IF (((Len(data) - 1) * pct) \div 100) + 1 < Len(data) - 1
                     THEN (((Len(data) - 1) * pct) \div 100) + 1
                     ELSE Len(data) - 1)

x0s(page) == [i \in DOMAIN page.spans |-> page.spans[i].x0]
x1s(page) == [i \in DOMAIN page.spans |-> page.spans[i].x1]
y0s(page) == [i \in DOMAIN page.spans |-> page.spans[i].y0]
y1s(page) == [i \in DOMAIN page.spans |-> page.spans[i].y1]

\* geometry.py 81-83: round((x0 + x1) / 2 / w_pt, 1) of every span, in tenths
buckets(page) ==
    {RoundDiv(5 * (page.spans[i].x0 + page.spans[i].x1), page.w_pt) :
        i \in DOMAIN page.spans}

\* geometry.py 49-97
_page_metrics_single(page) ==
    IF page.spans = <<>>
    THEN [page_w |-> page.w_pt * 100,
          page_h |-> page.h_pt * 100,
          left_margin |-> page.w_pt * 100,
          right_margin |-> page.w_pt * 100,
          top_margin |-> page.h_pt * 100,
          bottom_margin |-> page.h_pt * 100,
          two_column |-> FALSE,
          footnote_baseline |-> 0]
    ELSE [page_w |-> page.w_pt * 100,
          page_h |-> page.h_pt * 100,
          left_margin |-> _percentile(x0s(page), 5),
          right_margin |-> page.w_pt * 100 - _percentile(x1s(page), 95),
          top_margin |-> _percentile(y0s(page), 5),
          bottom_margin |-> page.h_pt * 100 - _percentile(y1s(page), 95),
          two_column |-> Cardinality(buckets(page)) > 6,
          footnote_baseline |->
              (page.h_pt - y0s(page)[Least(y0s(page))]) * 100]

\* statistics.median of a sorted non-empty sequence
Middle(s) ==
    IF Len(s) % 2 = 1 THEN s[(Len(s) + 1) \div 2]
    ELSE (s[Len(s) \div 2] + s[(Len(s) \div 2) + 1]) \div 2

median(data) == Middle(sorted(data))

\* a document value that is the median page, used where the code takes min
MinOfAsMedian(data) == median(data)

\* min() of a non-empty sequence
MinOf(data) == data[Least(data)]

\* any() where the code takes all()
AnyOf(flags) == \E i \in DOMAIN flags : flags[i]

\* all()
AllOf(flags) == \A i \in DOMAIN flags : flags[i]

\* x * _PT_TO_CM rounded to two decimals, from hundredths of a point
ToCm(pt100) == RoundDiv(pt100 * 254, 7200)

Field(per_page, key) == [i \in DOMAIN per_page |-> per_page[i][key]]

\* geometry.py 108-132: the aggregations and the returned mapping
Aggregate(per_page) ==
    [page_w_cm |-> ToCm(median(Field(per_page, "page_w"))),
     page_h_cm |-> ToCm(median(Field(per_page, "page_h"))),
     left_margin_cm |-> ToCm(MinOf(Field(per_page, "left_margin"))),
     right_margin_cm |-> ToCm(MinOf(Field(per_page, "right_margin"))),
     top_margin_cm |-> ToCm(MinOf(Field(per_page, "top_margin"))),
     bottom_margin_cm |-> ToCm(MinOf(Field(per_page, "bottom_margin"))),
     two_column |-> AllOf(Field(per_page, "two_column")),
     footnote_baseline_cm |-> ToCm(median(Field(per_page, "footnote_baseline"))),
     _pages |-> per_page]

NoMetrics == [k \in {} |-> 0]

\* geometry.py 103-132; the median of no pages raises StatisticsError
page_metrics(pages) ==
    IF pages = <<>>
    THEN [raised |-> TRUE, g |-> NoMetrics]
    ELSE [raised |-> FALSE,
          g |-> Aggregate([i \in DOMAIN pages |-> _page_metrics_single(pages[i])])]

\* pages of 600 x 800 pt
Blank == Page(600, 800, <<>>)

\* one column between margins of 72 pt, the last line short
Wide ==
    Page(600, 800,
         <<Span(72, 72, 528, 84), Span(72, 90, 528, 102), Span(72, 700, 400, 712)>>)

\* one column that runs close to every edge
Narrow ==
    Page(600, 800,
         <<Span(36, 30, 570, 42), Span(36, 48, 570, 60), Span(36, 760, 570, 772)>>)

\* two columns under a heading, with short lines in both columns
TwoColumn ==
    Page(600, 800,
         <<Span(50, 60, 550, 80), Span(50, 100, 430, 112),
           Span(50, 120, 290, 132), Span(310, 120, 550, 132),
           Span(50, 140, 190, 152), Span(310, 140, 410, 152),
           Span(50, 160, 110, 172), Span(310, 160, 550, 172)>>)

\* the same layout pushed towards the left and top edges
TwoColumnTight ==
    Page(600, 800,
         <<Span(40, 10, 540, 30), Span(40, 100, 420, 112),
           Span(40, 120, 280, 132), Span(300, 120, 540, 132),
           Span(40, 140, 180, 152), Span(300, 140, 400, 152),
           Span(40, 160, 100, 172), Span(300, 160, 540, 172)>>)

PageSamples == {Blank, Wide, Narrow, TwoColumn, TwoColumnTight}

Documents == UNION {[1..n -> PageSamples] : n \in 0..MaxPages}

(***************************************************************************)
(* driver.py                                                               *)
(***************************************************************************)
\* driver.py 11-13: the keys run_checks reads from g, in order
ReadKeys == <<"left_margin", "right_margin", "two_column">>

\* g[key] raises KeyError for the first key g does not hold
MissingKeys(g) == {i \in DOMAIN ReadKeys : ReadKeys[i] \notin DOMAIN g}

\* the glyphs of the submissions the driver is run on
DriverChars ==
    {<<Glyph(<<"TimesNewRomanPSMT">>, 1204)>>,
     <<Glyph(<<"ABCDEF", "+", "TimesNewRomanPSMT">>, 1196), Glyph(<<"ABCDEF">>, 1000)>>}

GeoStart(pages) == [pc |-> "start", pages |-> pages, g |-> NoMetrics, fault |-> ""]

InitGeometry ==
    /\ EngineIdle
    /\ \E pages \in Documents : geo = GeoStart(pages)
    /\ \E chars \in DriverChars : fnt = FontsStart(chars)
    /\ llm = Idle /\ ev = Idle

\* the outcome of page_metrics as the caller sees it
Measured(r) ==
    [geo EXCEPT !.pc = IF r.raised THEN "raised" ELSE "measured",
                !.g = r.g,
                !.fault = IF r.raised THEN "StatisticsError" ELSE ""]

\* geometry.py 103-132, called by the engine's resolver or on its own
PageMetrics ==
    /\ geo.pc = "start"
    /\ geo' = Measured(page_metrics(geo.pages))
    /\ UNCHANGED <<engineVars, fnt, llm, ev>>

\* driver.py 10-15 once g and fonts are bound
Printed(g, fonts) ==
    /\ geo' = [geo EXCEPT !.pc = IF MissingKeys(g) = {} THEN "checked" ELSE "faulted",
                          !.g = g,
                          !.fault = IF MissingKeys(g) = {} THEN "" ELSE "KeyError"]
    /\ fnt' = IF MissingKeys(g) = {}
              THEN [fnt EXCEPT !.pc = "judged", !.fonts = fonts,
                               !.allowed = has_only_times_and_arial(fonts)]
              ELSE [fnt EXCEPT !.pc = "listed", !.fonts = fonts]

\* driver.py 7-15
RunChecks ==
    /\ geo.pc = "start"
    /\ fnt.pc = "start"
    /\ IF page_metrics(geo.pages).raised
       THEN geo' = Measured(page_metrics(geo.pages)) /\ fnt' = fnt
       ELSE Printed(page_metrics(geo.pages).g, font_inventory(fnt.chars))
    /\ UNCHANGED <<engineVars, llm, ev>>

NextGeometry == PageMetrics \/ RunChecks

SpecGeometry == InitGeometry /\ [][NextGeometry]_vars

(***************************************************************************)
(* A quantitative rule of the catalog evaluated on a resolved number, as   *)
(* lines 150-159 of run() do once the extractor has returned.              *)
(***************************************************************************)
\* resolved values lie within MaxOffset half units of a threshold
MaxOffset == 3

QuantitativeRules ==
    {CRITERIA[i] : i \in {k \in DOMAIN CRITERIA :
                            CRITERIA[k].kind = "QuantitativeCriterion"}}

\* the thresholds a rule compares against
Thresholds(rule) ==
    {f.v : f \in {g \in {rule.target, rule.min_value, rule.max_value} : g.some}}

\* numbers around the thresholds of a rule, in steps of 0.5
NearThresholds(rule) ==
    {Num(t + 50 * d) : t \in Thresholds(rule), d \in (0 - MaxOffset)..MaxOffset}

EvaluateStart(rule, value) ==
    [pc |-> "start", rule |-> rule, value |-> value, entry |-> Skipped(NoMsg)]

InitEvaluate ==
    /\ EngineIdle
    /\ \E rule \in QuantitativeRules :
        \E value \in NearThresholds(rule) : ev = EvaluateStart(rule, value)
    /\ geo = Idle /\ fnt = Idle /\ llm = Idle

\* evaluate_pdf.py 159 on the outcome d of the evaluator
Entry(rule, d) == Evaluated(StatusOf(rule, d.passed), d.detail)

\* evaluate_pdf.py 150-151, 159
EvaluateQuantitative ==
    /\ ev.pc = "start"
    /\ ev' = [ev EXCEPT !.pc = "evaluated",
                        !.entry = Entry(ev.rule, _evaluate_quantitative(ev.rule, ev.value))]
    /\ UNCHANGED <<engineVars, geo, fnt, llm>>

NextEvaluate == EvaluateQuantitative

SpecEvaluate == InitEvaluate /\ [][NextEvaluate]_vars

(***************************************************************************)
(* llm_eval_pdf.py: process_pdf on one document.  The page image           *)
(* NNN.png is named by its page number; files is the content of the        *)
(* temporary image directory.                                              *)
(***************************************************************************)
\* the document and its surroundings: the number of pages, the page that
\* fails to rasterize (0: none), whether GEMINI_API_KEY is set, and the
\* image files os.remove is refused on
Environments ==
    {[pages |-> n, corrupt |-> c, key |-> k, locked |-> l] :
        n \in 0..MaxPages, c \in 0..MaxPages, k \in BOOLEAN,
        l \in {{}} \cup {{p} : p \in 1..MaxPages}}

ProcessStart(e) ==
    [pc |-> "configure", env |-> e, page_num |-> 0, local |-> <<>>,
     image_paths |-> <<>>, files |-> {}, created |-> {}, dir |-> FALSE,
     error |-> "", saved |-> FALSE]

InitLlm ==
    /\ EngineIdle
    /\ \E e \in Environments :
        /\ e.corrupt <= e.pages
        /\ \A p \in e.locked : p <= e.pages
        /\ llm = ProcessStart(e)
    /\ geo = Idle /\ fnt = Idle /\ ev = Idle

\* an exception reaches the except clause of process_pdf, then finally
Caught(what) == [llm EXCEPT !.pc = "finally", !.error = what]

\* llm_eval_pdf.py 8-13, 94; 26-30: pdf_to_images makes the directory and
\* starts with its own empty list
ConfigureApi ==
    /\ llm.pc = "configure"
    /\ llm' = IF llm.env.key
              THEN [llm EXCEPT !.pc = "rasterize", !.dir = TRUE,
                               !.page_num = 0, !.local = <<>>]
              ELSE Caught("configure")
    /\ UNCHANGED <<engineVars, geo, fnt, ev>>

\* llm_eval_pdf.py 32-39: one iteration of the loop of pdf_to_images
RasterizePage ==
    /\ llm.pc = "rasterize"
    /\ llm.page_num < llm.env.pages
    /\ llm' = IF llm.page_num + 1 = llm.env.corrupt
              THEN Caught("rasterize")
              ELSE [llm EXCEPT !.files = @ \cup {llm.page_num + 1},
                               !.created = @ \cup {llm.page_num + 1},
                               !.local = Append(@, llm.page_num + 1),
                               !.page_num = @ + 1]
    /\ UNCHANGED <<engineVars, geo, fnt, ev>>

\* llm_eval_pdf.py 41-42, 97-99: the list reaches process_pdf
ImagesReturned ==
    /\ llm.pc = "rasterize"
    /\ llm.page_num = llm.env.pages
    /\ llm' = [llm EXCEPT !.pc = "upload", !.image_paths = llm.local]
    /\ UNCHANGED <<engineVars, geo, fnt, ev>>

\* llm_eval_pdf.py 102-103
Upload ==
    /\ llm.pc = "upload"
    /\ llm' = [llm EXCEPT !.pc = "generate"]
    /\ UNCHANGED <<engineVars, geo, fnt, ev>>

\* llm_eval_pdf.py 106-126
GenerateContent ==
    /\ llm.pc = "generate"
    /\ llm' = [llm EXCEPT !.pc = "convert"]
    /\ UNCHANGED <<engineVars, geo, fnt, ev>>

\* llm_eval_pdf.py 132-137
ConvertText ==
    /\ llm.pc = "convert"
    /\ llm' = [llm EXCEPT !.pc = "write"]
    /\ UNCHANGED <<engineVars, geo, fnt, ev>>

\* llm_eval_pdf.py 141-151
WriteHtml ==
    /\ llm.pc = "write"
    /\ llm' = [llm EXCEPT !.pc = "finally", !.saved = TRUE]
    /\ UNCHANGED <<engineVars, geo, fnt, ev>>

\* the upload, the model call, pandoc or the write raises
ExternalFault ==
    /\ llm.pc \in {"upload", "generate", "convert", "write"}
    /\ llm' = Caught(llm.pc)
    /\ UNCHANGED <<engineVars, geo, fnt, ev>>

Elements(seq) == {seq[i] : i \in DOMAIN seq}

\* llm_eval_pdf.py 72-76: os.remove on every path, an OSError only printed
Removed(files, image_paths, locked) == files \ (Elements(image_paths) \ locked)

\* llm_eval_pdf.py 64-86: remaining is the directory after the removals;
\* os.rmdir succeeds on an empty directory only
cleanup_images(image_paths, remaining) ==
    [llm EXCEPT !.pc = "returned",
                !.files = remaining,
                !.dir = IF image_paths # <<>> /\ remaining = {} THEN FALSE ELSE @]

\* llm_eval_pdf.py 156-159
Finally ==
    /\ llm.pc = "finally"
    /\ llm' = IF llm.image_paths # <<>>
              THEN cleanup_images(llm.image_paths,
                                  Removed(llm.files, llm.image_paths, llm.env.locked))
              ELSE [llm EXCEPT !.pc = "returned"]
    /\ UNCHANGED <<engineVars, geo, fnt, ev>>

NextLlm ==
    \/ ConfigureApi \/ RasterizePage \/ ImagesReturned \/ Upload
    \/ GenerateContent \/ ConvertText \/ WriteHtml \/ ExternalFault \/ Finally

SpecLlm == InitLlm /\ [][NextLlm]_vars

(***************************************************************************)
(* Properties.                                                             *)
(***************************************************************************)
\* iteration i of the loop has completed
Completed(i) == pc \in {"running", "done", "crashed"} /\ i \in 1..(idx - 1)

\* iteration i is the last completed one that wrote report[criteria[i].id]
Latest(i) ==
    /\ Completed(i)
    /\ \A j \in (i + 1)..(idx - 1) : criteria[j].id # criteria[i].id

\* the iteration that has just completed, whose val, err and calls the state holds
JustRan(i) == pc \in {"running", "done"} /\ i = idx - 1 /\ i >= 1

\* the extractor of the rule resolved to a value: no failure reason, no fault
ResolvesTo(rule) == _execute_extractor(world.pdf_path, rule.extractor, world)

Resolved(rule) ==
    /\ rule.extractor # <<>>
    /\ ~ResolvesTo(rule).raised
    /\ ResolvesTo(rule).err = NoMsg

HasOneOf(entry) == ("value" \in entry.keys) # ("reason" \in entry.keys)

\* C1: once run has returned, the report has exactly one entry for each id of
\* the catalog and every entry holds exactly one of the keys value and reason
C1_OneVerdictPerCriterion ==
    pc = "done" =>
      /\ DOMAIN report = Ids(criteria)
      /\ Len(order) = Cardinality(Ids(criteria))
      /\ \A id \in DOMAIN report :
           /\ "status" \in report[id].keys
           /\ HasOneOf(report[id])
           /\ report[id].status = "skipped" <=> "reason" \in report[id].keys

\* a returned report of the shipped catalog that holds passes, failures, an
\* unsupported class and an unresolved module side by side
C1_Witness ==
    /\ pc = "done"
    /\ criteria = CRITERIA
    /\ \E a, b, c, d \in DOMAIN report :
         /\ report[a].status = "ok"
         /\ report[b].status = "warning" /\ "value" \in report[b].keys
         /\ report[c].reason.kind = "not yet supported"
         /\ report[d].reason.kind = "module not found"

\* C2 (as claimed): a quantitative rule whose extractor resolves to a value
\* that float() rejects is recorded as skipped with a reason
C2_NonNumericIsSkipped ==
    \A i \in DOMAIN criteria :
      ( /\ Latest(i)
        /\ criteria[i].kind = "QuantitativeCriterion"
        /\ Resolved(criteria[i])
        /\ ~ToFloat(ResolvesTo(criteria[i]).val).some )
      => /\ report[criteria[i].id].status = "skipped"
         /\ "reason" \in report[criteria[i].id].keys

\* C3 (as claimed): no exception leaves run()
C3_NoFaultEscapes == pc # "crashed"

\* every prefix of the reference ends in ModuleNotFoundError
NoImportablePrefix(path) ==
    \A i \in 1..Len(Split(path)) :
      ImportModule(SubSeq(Split(path), 1, i), world) = "notfound"

\* C4: a rule whose reference names no module that can be found is skipped
\* with the module-not-found reason, it does not stop the loop, and every
\* other rule has the verdict it has when evaluated on its own
C4_MissingModuleIsSkipped ==
    /\ \A i \in DOMAIN criteria :
         Latest(i) =>
           IF criteria[i].extractor # <<>> /\ NoImportablePrefix(criteria[i].extractor)
           THEN report[criteria[i].id] =
                  Skipped(Msg("module not found", "", criteria[i].extractor))
           ELSE report[criteria[i].id] =
                  RunRule(criteria[i], world.pdf_path, world).entry
    /\ pc = "crashed" =>
         ~(criteria[idx].extractor # <<>> /\ NoImportablePrefix(criteria[idx].extractor))
    /\ pc = "done" =>
         \A i \in DOMAIN criteria : Completed(i)

\* a rule on a missing module is followed by a rule that is evaluated
C4_Witness ==
    /\ pc = "done"
    /\ \E i, j \in DOMAIN criteria :
         /\ i < j
         /\ NoImportablePrefix(criteria[i].extractor)
         /\ criteria[i].extractor # <<>>
         /\ report[criteria[i].id].reason.kind = "module not found"
         /\ report[criteria[j].id].status = "ok"

\* the comparison the rule asks for, case by case
QuantitativeExpected(rule, v) ==
    CASE rule.target.some /\ rule.tolerance.some ->
           /\ rule.target.v - rule.tolerance.v <= v
           /\ v <= rule.target.v + rule.tolerance.v
      [] ~(rule.target.some /\ rule.tolerance.some)
           /\ rule.min_value.some /\ rule.max_value.some ->
           rule.min_value.v <= v /\ v <= rule.max_value.v
      [] ~(rule.target.some /\ rule.tolerance.some)
           /\ rule.min_value.some /\ ~rule.max_value.some -> v >= rule.min_value.v
      [] ~(rule.target.some /\ rule.tolerance.some)
           /\ ~rule.min_value.some /\ rule.max_value.some -> v <= rule.max_value.v
      [] OTHER -> TRUE

NamedFalsy == {Num(0), Str(""), NoneV, Bool(FALSE)}

NamedTruthy == {Num(1), Str("x"), Bool(TRUE)}

\* C6: an existential rule passes iff the truthiness of the resolved value
\* equals must_be_true; with must_be_true set, 0, "", None and False give the
\* severity and 1, "x" and True give ok
C6_ExistentialTruthiness ==
    \A i \in DOMAIN criteria :
      ( /\ Latest(i)
        /\ criteria[i].kind = "ExistentialCriterion"
        /\ Resolved(criteria[i]) )
      => LET v == ResolvesTo(criteria[i]).val
             e == report[criteria[i].id]
         IN /\ e.keys = {"status", "value"}
            /\ e.value = v
            /\ e.status \in {"ok", criteria[i].severity}
            /\ e.status = "ok" <=> (Truthy(v, world) <=> criteria[i].must_be_true)
            /\ (criteria[i].must_be_true /\ v \in NamedFalsy)
                 => e.status = criteria[i].severity
            /\ (criteria[i].must_be_true /\ v \in NamedTruthy) => e.status = "ok"

\* the empty text fails a must_be_true rule
C6_Witness ==
    \E i \in DOMAIN criteria :
      /\ Latest(i)
      /\ criteria[i].kind = "ExistentialCriterion"
      /\ criteria[i].must_be_true
      /\ Resolved(criteria[i])
      /\ ResolvesTo(criteria[i]).val = Str("")
      /\ report[criteria[i].id].status = "error"

\* C7 (as claimed): a structural rule whose extractor resolves is judged by
\* the truthiness of the value: ok when truthy, the severity when falsy
C7_StructuralTruthiness ==
    \A i \in DOMAIN criteria :
      ( /\ Latest(i)
        /\ criteria[i].kind = "StructuralCriterion"
        /\ Resolved(criteria[i]) )
      => LET v == ResolvesTo(criteria[i]).val
         IN report[criteria[i].id] =
              Evaluated(IF Truthy(v, world) THEN "ok" ELSE criteria[i].severity, v)

\* C7 (amended): a structural rule whose extractor resolves is recorded as
\* skipped with the reason that StructuralCriterion is not yet supported,
\* whatever the resolved value is
C7_StructuralNotSupported ==
    \A i \in DOMAIN criteria :
      ( /\ Latest(i)
        /\ criteria[i].kind = "StructuralCriterion"
        /\ Resolved(criteria[i]) )
      => report[criteria[i].id] =
           Skipped(Msg("not yet supported", "StructuralCriterion", <<>>))

\* a structural rule on a truthy boolean
C7_Witness ==
    \E i \in DOMAIN criteria :
      /\ JustRan(i)
      /\ criteria[i].kind = "StructuralCriterion"
      /\ Resolved(criteria[i])
      /\ val = Bool(TRUE)
      /\ report[criteria[i].id].status = "skipped"

\* the module a reference starts with: the longest prefix that imports, every
\* longer one not being found
ModulePrefix(parts) ==
    {i \in 1..Len(parts) :
       /\ ImportModule(SubSeq(parts, 1, i), world) = "module"
       /\ \A j \in (i + 1)..Len(parts) :
            ImportModule(SubSeq(parts, 1, j), world) = "notfound"}

\* the object k attribute steps after the module
RECURSIVE Cursor(_, _, _)
Cursor(parts, i, k) ==
    IF k = 0 THEN Ref("module", SubSeq(parts, 1, i))
    ELSE Attrs(Cursor(parts, i, k - 1), world)[parts[i + k]]

\* k attribute steps can be taken without meeting an invocable object
Reachable(parts, i, k) ==
    \A j \in 0..(k - 1) :
      /\ ~callable(Cursor(parts, i, j))
      /\ parts[i + j + 1] \in DOMAIN Attrs(Cursor(parts, i, j), world)

\* the invocations a resolution of the reference is to make
ExpectedCalls(path) ==
    LET parts == Split(path)
        first == {<<i, k>> \in (1..Len(parts)) \X (0..Len(parts)) :
                    /\ i \in ModulePrefix(parts)
                    /\ i + k <= Len(parts)
                    /\ Reachable(parts, i, k)
                    /\ callable(Cursor(parts, i, k))}
    IN IF path = <<>> \/ first = {} THEN <<>>
       ELSE LET ik == CHOOSE x \in first : TRUE
            IN <<[f |-> Cursor(parts, ik[1], ik[2]), args |-> <<world.pdf_path>>]>>

\* C8: one resolution invokes at most one object, with the document path as
\* its only argument: the first invocable object along the path after the
\* module, also when the path ends at it; what is reached in its result is
\* not invoked
C8_FirstInvocableOnce ==
    /\ Len(calls) <= 1
    /\ \A c \in DOMAIN calls : calls[c].args = <<world.pdf_path>>
    /\ \A i \in DOMAIN criteria :
         JustRan(i) => calls = ExpectedCalls(criteria[i].extractor)
    /\ pc = "crashed" => calls = ExpectedCalls(criteria[idx].extractor)

\* the resolved value is itself a function, found in the provider's result,
\* and only the provider was invoked
C8_Witness ==
    \E i \in DOMAIN criteria :
      /\ JustRan(i)
      /\ criteria[i].extractor = <<"structure", "metrics", "cb">>
      /\ err = NoMsg
      /\ callable(val)
      /\ calls = <<[f |-> Ref("function", <<"structure", "metrics">>),
                   args |-> <<"submission.pdf">>]>>

\* C9: module.f.key resolves to the value of key in the mapping f returns;
\* a segment that is no attribute of the module, or no key or attribute of
\* the provider's result, gives a failure reason naming the segment, and
\* nothing is raised
C9_DrillDown ==
    /\ \A i \in DOMAIN criteria :
         LET path == criteria[i].extractor
             module == Ref("module", <<path[1]>>)
             f == Attrs(module, world)[path[2]]
             result == Call(f, world.pdf_path, world)
         IN ( /\ JustRan(i)
              /\ Len(path) \in {2, 3}
              /\ ImportModule(<<path[1]>>, world) = "module" )
            => /\ path[2] \notin DOMAIN Attrs(module, world) =>
                    /\ val = NoneV
                    /\ err.kind = "attribute missing" /\ err.arg = path[2]
               /\ ( /\ Len(path) = 3
                    /\ path[2] \in DOMAIN Attrs(module, world)
                    /\ callable(f)
                    /\ result # Raises )
                  => IF isdict(result) /\ path[3] \in DOMAIN Items(result, world)
                     THEN val = Items(result, world)[path[3]] /\ err = NoMsg
                     ELSE IF path[3] \in DOMAIN Attrs(result, world)
                     THEN val = Attrs(result, world)[path[3]] /\ err = NoMsg
                     ELSE /\ val = NoneV
                          /\ err.kind = "key/attr not found" /\ err.arg = path[3]
    /\ pc = "crashed" =>
         ~( /\ criteria[idx].extractor # <<>>
            /\ ImportModule(<<criteria[idx].extractor[1]>>, world) = "module" )

\* geometry.page_metrics.left_margin_cm resolved to the mapping's value
C9_Witness ==
    \E i \in DOMAIN criteria :
      /\ JustRan(i)
      /\ criteria[i].extractor = <<"geometry", "page_metrics", "left_margin_cm">>
      /\ world.doc = "edge"
      /\ val = Num(501)
      /\ err = NoMsg

\* C10 (as claimed): a catalog with a repeated id never gets past the
\* construction of the lookup: no lookup is built from it, no run starts
C10_DuplicateIdFailsLoudly ==
    HasDuplicateIds(criteria) => pc = "import"

\* C11: a second call of run() on the same document with the same providers
\* returns the report the first call returned: the same ids in the same
\* order, with the same status and the same value or reason for each id
C11_SecondPassIdentical ==
    (pc = "done" /\ history # <<>>) =>
        \A k \in 1..Len(history) :
            /\ history[k].order = order
            /\ history[k].report = report

\* a second pass over the real catalog has returned, and its report holds
\* evaluated verdicts as well as skipped ones
C11_Witness ==
    /\ pc = "done"
    /\ history # <<>>
    /\ Len(criteria) = Len(CRITERIA)
    /\ \E i \in DOMAIN report : report[i].status = "ok"
    /\ \E i \in DOMAIN report : report[i].status = "skipped"

\* the text after the first "+" of a raw name, the whole name without one
AfterFirstPlus(raw) ==
    IF \A i \in DOMAIN raw : raw[i] # "+" THEN raw
    ELSE SubSeq(raw, FirstIndex(raw, "+") + 1, Len(raw))

\* C14: the names font_inventory reports are the raw names with exactly the
\* text up to and including the first "+" removed (the whole raw name when
\* it holds no "+"), also for a raw name with more than one "+"
C14_StripsUpToFirstPlus ==
    fnt.pc \in {"listed", "judged"} =>
        {fnt.fonts[i].tag.name : i \in DOMAIN fnt.fonts}
            = {AfterFirstPlus(fnt.chars[k].fontname) : k \in DOMAIN fnt.chars}

\* the per-page metrics of the document in hand
PerPage == [i \in DOMAIN geo.pages |-> _page_metrics_single(geo.pages[i])]

\* value is the least of the per-page margins under key, in centimetres
IsMinimum(value, key) ==
    /\ \A i \in DOMAIN PerPage : value <= ToCm(PerPage[i][key])
    /\ \E i \in DOMAIN PerPage : value = ToCm(PerPage[i][key])

\* C12: for a document of at least one page, each of the four margins
\* page_metrics returns is the smallest of that margin over the pages: no
\* page has a narrower one, and some page has exactly that one
C12_MarginsAreMinima ==
    geo.pc = "measured" =>
        /\ IsMinimum(geo.g.left_margin_cm, "left_margin")
        /\ IsMinimum(geo.g.right_margin_cm, "right_margin")
        /\ IsMinimum(geo.g.top_margin_cm, "top_margin")
        /\ IsMinimum(geo.g.bottom_margin_cm, "bottom_margin")

\* three pages measured, one of them alone with the narrowest left margin,
\* which is the document's value and lies below the median page's
C12_Witness ==
    /\ geo.pc = "measured"
    /\ Len(geo.pages) = 3
    /\ \E i \in DOMAIN PerPage :
        /\ \A j \in DOMAIN PerPage \ {i} :
            PerPage[i].left_margin < PerPage[j].left_margin
        /\ geo.g.left_margin_cm = ToCm(PerPage[i].left_margin)
    /\ geo.g.left_margin_cm < ToCm(median(Field(PerPage, "left_margin")))

\* C13 as stated: the document counts as single-column (two_column is
\* False) exactly when every page is judged single-column, so one
\* multi-column page makes the document multi-column
C13_SingleColumnThroughout ==
    geo.pc = "measured" =>
        ((~geo.g.two_column) <=> \A i \in DOMAIN PerPage : ~PerPage[i].two_column)

\* C13 amended: the flag two_column is the conjunction over the pages of the
\* per-page two_column judgment: True only when every page looks
\* two-column, False as soon as one page is single-column or blank
C13_TwoColumnThroughout ==
    geo.pc = "measured" =>
        (geo.g.two_column <=> \A i \in DOMAIN PerPage : PerPage[i].two_column)

\* a measured document that mixes two-column and single-column pages
C13_Witness ==
    /\ geo.pc = "measured"
    /\ \E i \in DOMAIN PerPage : PerPage[i].two_column
    /\ \E i \in DOMAIN PerPage : ~PerPage[i].two_column
    /\ ~geo.g.two_column

\* C17: once page_metrics and font_inventory have returned, run_checks
\* finds every key it reads in the geometry result and completes
C17_RunChecksFindsItsKeys ==
    geo.pc \in {"checked", "faulted"} => geo.pc = "checked"

\* the font-size rules whose descriptions promise a band of 1 pt
FontSizeRules == {"T02_title", "T02_body", "T02_captions"}

\* C15: a font-size rule evaluated on a resolved size passes when the size
\* is within 1 pt of the rule's target, and yields the rule's severity when
\* it is further away
C15_FontSizeWithinOnePoint ==
    (ev.pc = "evaluated" /\ ev.rule.id \in FontSizeRules) =>
        ev.entry.status =
            IF Abs(ev.value.n - ev.rule.target.v) <= 100
            THEN "ok" ELSE ev.rule.severity

\* C16: when process_pdf has returned, normally or after a failed step, and
\* no removal was refused, no page image it created is left in the temporary
\* image directory
C16_ImagesDeletedOnReturn ==
    (llm.pc = "returned" /\ llm.env.locked = {}) =>
        llm.created \cap llm.files = {}

====
